---- MODULE Spec2Model ----
(***************************************************************************)
(* Virtual Try-On backend: combination identity, cache-or-generate flow,   *)
(* image composition call and Fabric event publishing.                     *)
(*                                                                         *)
(* Strings are sequences of code points (TLC cannot index a TLA+ string),  *)
(* so "a|b" is <<97, 124, 98>>.                                            *)
(***************************************************************************)
EXTENDS Integers, Sequences, FiniteSets, TLC

(* ------------------------------ bounds --------------------------------- *)
\* longest item identifier, in characters
MaxIdLen == 1
\* longest item list handed to the Identity Function
MaxItems == 3

(* --------------------------- strings ----------------------------------- *)
\* the characters identifiers are built from: 'a' and '|'
Alphabet == {97, 124}

\* the separator of "|".join(...)
Sep == 124

\* '-' of the UUID-shaped format string
Dash == 45

RECURSIVE StrsUpTo(_)
StrsUpTo(n) ==
    IF n = 0 THEN {<< >>}
    ELSE LET shorter == StrsUpTo(n - 1)
         IN  shorter \cup {Append(s, c) : s \in {x \in shorter : Len(x) = n - 1}, c \in Alphabet}

\* every identifier string a request can carry (the empty string included)
Ids == StrsUpTo(MaxIdLen)

RECURSIVE SeqsUpTo(_, _)
SeqsUpTo(S, n) ==
    IF n = 0 THEN {<< >>}
    ELSE LET shorter == SeqsUpTo(S, n - 1)
         IN  shorter \cup {Append(s, e) : s \in {x \in shorter : Len(x) = n - 1}, e \in S}

\* Python's str comparison: lexicographic by code point, a proper prefix first
RECURSIVE StrLess(_, _)
StrLess(a, b) ==
    IF b = << >> THEN FALSE
    ELSE IF a = << >> THEN TRUE
    ELSE IF Head(a) < Head(b) THEN TRUE
    ELSE IF Head(a) > Head(b) THEN FALSE
    ELSE StrLess(Tail(a), Tail(b))

\* insert x into the ascending list s, after the elements equal to it
RECURSIVE Insert(_, _)
Insert(x, s) ==
    IF s = << >> THEN <<x>>
    ELSE IF StrLess(x, Head(s)) THEN <<x>> \o s
    ELSE <<Head(s)>> \o Insert(x, Tail(s))

RECURSIVE SortedFrom(_, _)
SortedFrom(s, acc) ==
    IF s = << >> THEN acc ELSE SortedFrom(Tail(s), Insert(Head(s), acc))

\* a sorted() that forgets to sort
Sorted_unsorted(s) == s

\* a sorted() that also drops duplicates, as sorted(set(...)) would
RECURSIVE Dedup(_)
Dedup(s) ==
    IF Len(s) <= 1 THEN s
    ELSE IF s[1] = s[2] THEN Dedup(Tail(s))
    ELSE <<Head(s)>> \o Dedup(Tail(s))

Sorted_dedup(s) == Dedup(SortedFrom(s, << >>))

\* sorted(list_of_str)
Sorted(s) == SortedFrom(s, << >>)

\* "|".join(list_of_str)
RECURSIVE Join(_)
Join(s) ==
    IF s = << >> THEN << >>
    ELSE IF Len(s) = 1 THEN s[1]
    ELSE s[1] \o <<Sep>> \o Join(Tail(s))

(* --------------------------- digest ------------------------------------ *)
\* one hexadecimal digit as a character: 0..9 -> '0'..'9', 10..15 -> 'a'..'f'
HexChar(d) == IF d < 10 THEN 48 + d ELSE 87 + d

\* the two hex characters of one byte
RECURSIVE HexOfBytes(_)
HexOfBytes(s) ==
    IF s = << >> THEN << >>
    ELSE <<HexChar(Head(s) \div 16), HexChar(Head(s) % 16)>> \o HexOfBytes(Tail(s))

\* str.encode(): the identifiers are ASCII, one byte per character
Encode(s) == s

\* hashlib.sha256(b).hexdigest(): 64 hex characters.  The compression
\* function is not computed: the stand-in is the SHA-256 padded message
\* itself (the bytes, the 0x80 marker, zero fill), which is injective and
\* keeps every message of the model inside the first 32 characters.
Sha256Hex(b) ==
    LET body == HexOfBytes(b) \o <<HexChar(8), HexChar(0)>>
    IN  body \o [i \in 1..(64 - Len(body)) |-> HexChar(0)]

\* f"{h[:8]}-{h[8:12]}-{h[12:16]}-{h[16:20]}-{h[20:32]}"
FormatId(h) ==
    SubSeq(h, 1, 8) \o <<Dash>> \o SubSeq(h, 9, 12) \o <<Dash>> \o SubSeq(h, 13, 16)
        \o <<Dash>> \o SubSeq(h, 17, 20) \o <<Dash>> \o SubSeq(h, 21, 32)

(* ----------------------- Identity Function ----------------------------- *)
\* app.generate_combination_id(item_ids)
generate_combination_id(item_ids) ==
    LET sorted_ids   == Sorted(item_ids)
        items_string == Join(sorted_ids)
        hash_digest  == Sha256Hex(Encode(items_string))
    IN  FormatId(hash_digest)

\* item.get(key, default) on an item record of the request
ItemGet(item, key, default) == IF key \in DOMAIN item THEN item[key] ELSE default

\* [item.get("id", "") for item in items]
ItemIdsOf(items) == [i \in 1..Len(items) |-> ItemGet(items[i], "id", << >>)]

\* a _generate_combination_id that hashes the ids in request order
FabricGenerateCombinationId_unsorted(items) ==
    FormatId(Sha256Hex(Encode(Join(ItemIdsOf(items)))))

\* FabricClient._generate_combination_id(items)
FabricGenerateCombinationId(items) ==
    LET sorted_ids   == Sorted(ItemIdsOf(items))
        items_string == Join(sorted_ids)
        hash_digest  == Sha256Hex(Encode(items_string))
    IN  FormatId(hash_digest)

(* ------------------------------ state ---------------------------------- *)
VARIABLES
    \* Identity Function harness: two item lists and the identifiers computed
    idA, idB, idpc, idOut,
    \* the files under PRODUCTS_FOLDER and GENERATED_FOLDER
    images, generated,
    \* one /api/generate handler per worker thread: its position and its
    \* locals selected_items, combination_id and image_paths, and the product
    \* images os.path.exists found when image_paths was built
    gpc, gitems, gid, gpaths, gimgs,
    \* history: requests accepted, outbound attempts of the running compose
    \* call, times each artifact was opened for writing, finished calls
    nreq, gattempts, writes, genLog,
    \* the two connection strings read from the environment at import
    EH_SALES_CONNECTION_STRING, EH_COMBINATIONS_CONNECTION_STRING,
    \* the module global _fabric_client, and the events transmitted on the
    \* combinations and the sales Event Hub
    fabric_client, combinationsHub, salesHub,
    \* history: uuid4() values drawn, producers created, finished requests
    uuids, producersMade, pubLog

idVars == <<idA, idB, idpc, idOut>>
genVars == <<images, generated, gpc, gitems, gid, gpaths, gimgs, nreq, gattempts, writes, genLog>>
pubVars == <<EH_SALES_CONNECTION_STRING, EH_COMBINATIONS_CONNECTION_STRING, fabric_client,
             combinationsHub, salesHub, uuids, producersMade, pubLog>>
vars == <<idVars, genVars, pubVars>>

\* the harness before it is given its lists
IdIdle == idA = << >> /\ idB = << >> /\ idpc = "off" /\ idOut = [app |-> << >>, fabric |-> << >>]

\* the process before the first publish request: _fabric_client is None.  The
\* value 0 stands for None in fabric_client and in the producer fields.
PubIdle ==
    /\ EH_SALES_CONNECTION_STRING = ""
    /\ EH_COMBINATIONS_CONNECTION_STRING = ""
    /\ fabric_client = << >>
    /\ combinationsHub = << >>
    /\ salesHub = << >>
    /\ uuids = 0
    /\ producersMade = [sales |-> 0, combinations |-> 0]
    /\ pubLog = << >>

(* ------------------------- cache-or-generate --------------------------- *)
\* worker threads of the server
NumThreads == 2
Threads == 1..NumThreads

\* requests the server accepts in one run
MaxRequests == 2

\* longest selected_items list of a /api/generate request
MaxSel == 2

\* the identifier of the catalog's product, "a", and an identifier no product
\* has, "aa"
ProductA == <<97>>
UnknownId == <<97, 97>>

\* CATALOG as load_catalog() returns it: category -> products, immutable
CATALOG == << [id |-> "hosen", products |-> <<[id |-> ProductA, image |-> "a.jpg"]>>] >>

\* os.path.join(PRODUCTS_FOLDER, category_id, product["image"])
ImgPath(category_id, product) == <<category_id, product.image>>

AllImagePaths ==
    UNION {{ImgPath(CATALOG[c].id, CATALOG[c].products[k]) : k \in 1..Len(CATALOG[c].products)} :
            c \in 1..Len(CATALOG)}

\* identifiers a request may select
GenIds == {ProductA, UnknownId}

\* the selected_items lists of the requests, the empty list included
Selections == SeqsUpTo(GenIds, MaxSel)

\* "for product in category['products']: if product['id'] == item_id: ... break"
RECURSIVE FirstMatch(_, _, _)
FirstMatch(products, item_id, k) ==
    IF k > Len(products) THEN 0
    ELSE IF products[k].id = item_id THEN k
    ELSE FirstMatch(products, item_id, k + 1)

\* the image paths one item_id adds, category by category: the first product
\* of the category with that id, if its image file exists
RECURSIVE PathsOfItem(_, _, _)
PathsOfItem(item_id, c, imgs) ==
    IF c > Len(CATALOG) THEN << >>
    ELSE LET k == FirstMatch(CATALOG[c].products, item_id, 1)
             here == IF k = 0 THEN << >>
                     ELSE LET img_path == ImgPath(CATALOG[c].id, CATALOG[c].products[k])
                          IN  IF img_path \in imgs THEN <<img_path>> ELSE << >>
         IN  here \o PathsOfItem(item_id, c + 1, imgs)

\* image_paths after the loop over selected_items
RECURSIVE ResolveImages(_, _)
ResolveImages(selected_items, imgs) ==
    IF selected_items = << >> THEN << >>
    ELSE PathsOfItem(Head(selected_items), 1, imgs) \o ResolveImages(Tail(selected_items), imgs)

\* what one requests.post can end in: an answer of the remote image-edit
\* endpoint, or no answer at all (timeout, connection error)
Responses ==
    {[status |-> 200, body |-> b] : b \in {"img1", "img2", "empty_data", "no_b64_json", "bad_b64"}}
    \cup {[status |-> st, body |-> "error"] : st \in {400, 429, 503}}

NoResponse == [status |-> 0, body |-> "none"]

\* response.raise_for_status(): HTTPError for 4xx and 5xx
RaiseForStatus(status) == status >= 400

\* a payload test that only looks at the status
HasImage_any200(body) == body # "error"

\* result.get("data") and result["data"][0].get("b64_json")
HasImage(body) == body \in {"img1", "img2", "bad_b64"}

\* a retry loop around the post: rate limiting and 5xx are tried again
Reattempt_transient(status, attempts) == status = 429 \/ status >= 500

\* lines 63-88 are a try/finally without except, in no loop, and the post
\* goes through no retrying session: an HTTPError leaves the function
Reattempt(status, attempts) == FALSE

\* the artifact file of a combination: GENERATED_FOLDER/look_<id>.jpeg
CachedPath(combination_id) == <<"look_", combination_id, ".jpeg">>

\* an existence test that never finds the file
FileExists_never(path) == FALSE

\* os.path.exists(cached_path)
FileExists(path) == path \in DOMAIN generated

NoFile == [from |-> << >>, bytes |-> "absent"]

\* content of the artifact of a combination in the folder state files
ArtifactIn(files, combination_id) ==
    IF CachedPath(combination_id) \in DOMAIN files THEN files[CachedPath(combination_id)]
    ELSE NoFile

GenIdle ==
    /\ images = {}
    /\ generated = << >>
    /\ gpc = [t \in Threads |-> "idle"]
    /\ gitems = [t \in Threads |-> << >>]
    /\ gid = [t \in Threads |-> << >>]
    /\ gpaths = [t \in Threads |-> << >>]
    /\ gimgs = [t \in Threads |-> {}]
    /\ nreq = 0
    /\ gattempts = [t \in Threads |-> 0]
    /\ writes = << >>
    /\ genLog = << >>

\* the server after start-up: both folders exist, any of the product images
\* may be on disk, nothing was generated yet
InitGen ==
    /\ IdIdle
    /\ PubIdle
    /\ images \in SUBSET AllImagePaths
    /\ generated = << >>
    /\ gpc = [t \in Threads |-> "idle"]
    /\ gitems = [t \in Threads |-> << >>]
    /\ gid = [t \in Threads |-> << >>]
    /\ gpaths = [t \in Threads |-> << >>]
    /\ gimgs = [t \in Threads |-> {}]
    /\ nreq = 0
    /\ gattempts = [t \in Threads |-> 0]
    /\ writes = << >>
    /\ genLog = << >>

\* jsonify({"error": msg}), code
ErrorResponse(code, msg) == [status |-> code, error |-> msg]

\* the success body of generate_look
LookResponse(combination_id, paths, cached) ==
    [status |-> 200, success |-> TRUE, image |-> CachedPath(combination_id),
     products |-> paths, cached |-> cached, combination_id |-> combination_id]

\* the handler of worker t returns response r for selected_items: its locals
\* die, and the finished call is logged with the number of
\* generate_outfit_image calls and outbound attempts it made, the last remote
\* answer it got, whether it opened the output file for writing, and the
\* artifact it leaves in the folder state files.  combination_id is << >>
\* when the call returned before line 117, imgs the product images on disk
\* when the call looked them up.
Return(t, selected_items, combination_id, imgs, r, invoked, attempts, last, wrote, files) ==
    /\ gpc' = [gpc EXCEPT ![t] = "idle"]
    /\ gitems' = [gitems EXCEPT ![t] = << >>]
    /\ gid' = [gid EXCEPT ![t] = << >>]
    /\ gpaths' = [gpaths EXCEPT ![t] = << >>]
    /\ gimgs' = [gimgs EXCEPT ![t] = {}]
    /\ gattempts' = [gattempts EXCEPT ![t] = 0]
    /\ genLog' = Append(genLog,
            [items |-> selected_items, id |-> combination_id, imgs |-> imgs,
             resp |-> r, invoked |-> invoked,
             attempts |-> attempts, last |-> last, wrote |-> wrote,
             file |-> IF selected_items = << >> THEN NoFile
                      ELSE ArtifactIn(files, combination_id)])

\* a validation that lets every list through
NoItems_never(items) == FALSE

\* "if not selected_items" / "if not items" (app.py:113, 183, 215)
NoItems(items) == items = << >>

\* a test of image_paths that lets the empty list through
NoImages_never(image_paths) == FALSE

\* "if not image_paths" (app.py:135)
NoImages(image_paths) == image_paths = << >>

\* generate_look, lines 110-136: validation, combination_id, catalog lookup
GenerateBegin(t, selected_items) ==
    /\ gpc[t] = "idle"
    /\ nreq < MaxRequests
    /\ nreq' = nreq + 1
    /\ IF NoItems(selected_items)
       THEN Return(t, selected_items, << >>, {}, ErrorResponse(400, "No items selected"),
                   0, 0, NoResponse, FALSE, generated)
       ELSE LET combination_id == generate_combination_id(selected_items)
                image_paths == ResolveImages(selected_items, images)
            IN  IF NoImages(image_paths)
                THEN Return(t, selected_items, combination_id, images,
                            ErrorResponse(400, "No images available for selected products"),
                            0, 0, NoResponse, FALSE, generated)
                ELSE /\ gitems' = [gitems EXCEPT ![t] = selected_items]
                     /\ gid' = [gid EXCEPT ![t] = combination_id]
                     /\ gpaths' = [gpaths EXCEPT ![t] = image_paths]
                     /\ gimgs' = [gimgs EXCEPT ![t] = images]
                     /\ gpc' = [gpc EXCEPT ![t] = "check"]
                     /\ UNCHANGED <<gattempts, genLog>>
    /\ UNCHANGED <<images, generated, writes, idVars, pubVars>>

\* generate_look, lines 138-147: the existence of the artifact is the cache
GenerateCheckCache(t) ==
    /\ gpc[t] = "check"
    /\ IF FileExists(CachedPath(gid[t]))
       THEN Return(t, gitems[t], gid[t], gimgs[t], LookResponse(gid[t], gpaths[t], TRUE),
                   0, 0, NoResponse, FALSE, generated)
       ELSE /\ gpc' = [gpc EXCEPT ![t] = "compose"]
            /\ UNCHANGED <<gitems, gid, gpaths, gimgs, gattempts, genLog>>
    /\ UNCHANGED <<images, generated, nreq, writes, idVars, pubVars>>

\* except Exception as e: return jsonify({"error": str(e)}), 500
GenerateFailed(t, msg, attempts, last, wrote, files) ==
    Return(t, gitems[t], gid[t], gimgs[t], ErrorResponse(500, msg), 1, attempts, last, wrote, files)

\* the outcomes of opening and writing the output file
IoOutcomes == {"ok", "open_fail", "write_fail"}

\* f with the file at path replaced by content
WriteFile(f, path, content) ==
    [q \in DOMAIN f \cup {path} |-> IF q = path THEN content ELSE f[q]]

\* an upload that sends the first image only
UploadedFiles_firstOnly(image_paths) == <<image_paths[1]>>

\* the "image[]" parts of the request: one per path of image_paths, in order
\* (agent.py:64-67)
UploadedFiles(image_paths) == [n \in 1..Len(image_paths) |-> image_paths[n]]

\* generate_outfit_image, lines 31-88, as called at app.py:152: token, input
\* files, one requests.post, the reading of its answer and the writing of the
\* output file.  open(output_path, "wb") creates or truncates the file before
\* the payload is decoded and written.
Compose(t, token_ok, response, io) ==
    /\ gpc[t] = "compose"
    /\ LET attempts == gattempts[t] + 1
           path    == CachedPath(gid[t])
           opened  == [q \in DOMAIN writes \cup {path} |->
                          IF q = path THEN (IF q \in DOMAIN writes THEN writes[q] ELSE 0) + 1
                          ELSE writes[q]]
           empty   == WriteFile(generated, path, [from |-> UploadedFiles(gpaths[t]), bytes |-> ""])
           partial == WriteFile(generated, path, [from |-> UploadedFiles(gpaths[t]), bytes |-> "partial"])
           full    == WriteFile(generated, path, [from |-> UploadedFiles(gpaths[t]), bytes |-> response.body])
       IN  IF gattempts[t] = 0 /\ gpaths[t] = << >>
           THEN /\ GenerateFailed(t, "No images provided", 0, NoResponse, FALSE, generated)
                /\ UNCHANGED <<generated, writes>>
           ELSE IF gattempts[t] = 0 /\ ~token_ok
           THEN /\ GenerateFailed(t, "credential", 0, NoResponse, FALSE, generated)
                /\ UNCHANGED <<generated, writes>>
           ELSE IF gattempts[t] = 0 /\ \E i \in 1..Len(gpaths[t]) : gpaths[t][i] \notin images
           THEN /\ GenerateFailed(t, "FileNotFoundError", 0, NoResponse, FALSE, generated)
                /\ UNCHANGED <<generated, writes>>
           ELSE IF response = NoResponse
           THEN /\ GenerateFailed(t, "ConnectionError", attempts, response, FALSE, generated)
                /\ UNCHANGED <<generated, writes>>
           ELSE IF RaiseForStatus(response.status)
           THEN IF Reattempt(response.status, attempts)
                THEN /\ gattempts' = [gattempts EXCEPT ![t] = attempts]
                     /\ UNCHANGED <<generated, writes, gpc, gitems, gid, gpaths, gimgs, genLog>>
                ELSE /\ GenerateFailed(t, "HTTPError", attempts, response, FALSE, generated)
                     /\ UNCHANGED <<generated, writes>>
           ELSE IF ~HasImage(response.body)
           THEN /\ GenerateFailed(t, "No image in response", attempts, response, FALSE, generated)
                /\ UNCHANGED <<generated, writes>>
           ELSE IF io = "open_fail"
           THEN /\ GenerateFailed(t, "OSError", attempts, response, FALSE, generated)
                /\ UNCHANGED <<generated, writes>>
           ELSE IF response.body = "bad_b64"
           THEN /\ generated' = empty
                /\ writes' = opened
                /\ GenerateFailed(t, "binascii.Error", attempts, response, TRUE, empty)
           ELSE IF io = "write_fail"
           THEN /\ generated' = partial
                /\ writes' = opened
                /\ GenerateFailed(t, "OSError", attempts, response, TRUE, partial)
           ELSE /\ generated' = full
                /\ writes' = opened
                /\ Return(t, gitems[t], gid[t], gimgs[t], LookResponse(gid[t], gpaths[t], FALSE),
                          1, attempts, response, TRUE, full)
    /\ UNCHANGED <<images, nreq, idVars, pubVars>>

\* a product image is deleted from PRODUCTS_FOLDER while the server runs
RemoveProductImage(img_path) ==
    /\ img_path \in images
    /\ images' = images \ {img_path}
    /\ UNCHANGED <<generated, gpc, gitems, gid, gpaths, gimgs, nreq, gattempts, writes, genLog,
                   idVars, pubVars>>

AllIdle == \A t \in Threads : gpc[t] = "idle"

GenerateAccept == \E t \in Threads, selected_items \in Selections : GenerateBegin(t, selected_items)

CacheChecked == \E t \in Threads : GenerateCheckCache(t)

Composed ==
    \E t \in Threads, token_ok \in BOOLEAN, response \in Responses \cup {NoResponse}, io \in IoOutcomes :
        Compose(t, token_ok, response, io)

ImageRemoved == \E img_path \in AllImagePaths : RemoveProductImage(img_path)

\* requests served by concurrent worker threads
NextGen == GenerateAccept \/ CacheChecked \/ Composed \/ ImageRemoved

SpecGen == InitGen /\ [][NextGen]_vars

\* requests served one after the other
NextGenSeq == (AllIdle /\ GenerateAccept) \/ CacheChecked \/ Composed \/ ImageRemoved

SpecGenSeq == InitGen /\ [][NextGenSeq]_vars

(* --------------------------- event publishing -------------------------- *)
\* /api/combination and /api/order requests the server accepts in one run
MaxPubRequests == 2

\* longest items list of a publish request
MaxPubItems == 2

\* a connection string is not set, well-formed, or malformed
ConnStrings == {"", "Endpoint=sb://ok", "malformed"}

\* item records of the publish requests: the "id" is all the Identity Function
\* reads; name, price and color are copied into the event unchanged
PubItemRecs == {[id |-> ProductA], [id |-> UnknownId]}

PubItemLists == SeqsUpTo(PubItemRecs, MaxPubItems)

\* combination_id of the request body: absent, the empty string, or "x"
SuppliedIds == {[has |-> FALSE, value |-> << >>], [has |-> TRUE, value |-> << >>],
                [has |-> TRUE, value |-> <<120>>]}

\* FabricClient.__init__: no producer, not initialized
NewFabricClient == [sales_producer |-> 0, combinations_producer |-> 0, initialized |-> FALSE]

InitPub ==
    /\ IdIdle
    /\ GenIdle
    /\ EH_SALES_CONNECTION_STRING \in ConnStrings
    /\ EH_COMBINATIONS_CONNECTION_STRING \in ConnStrings
    /\ fabric_client = << >>
    /\ combinationsHub = << >>
    /\ salesHub = << >>
    /\ uuids = 0
    /\ producersMade = [sales |-> 0, combinations |-> 0]
    /\ pubLog = << >>

\* get_fabric_client(): the singleton, created on first use.  The global is
\* << >> for None and <<client>> once set.
GetFabricClient(global) == IF global = << >> THEN <<NewFabricClient>> ELSE global

\* FabricClient._initialize on client c with made producers created so far:
\* the client and the count afterwards, and whether it raised
Initialize(c, made) ==
    IF c.initialized THEN [client |-> c, made |-> made, raised |-> FALSE]
    ELSE IF EH_SALES_CONNECTION_STRING = "malformed"
    THEN [client |-> c, made |-> made, raised |-> TRUE]
    ELSE LET c1 == IF EH_SALES_CONNECTION_STRING # ""
                   THEN [c EXCEPT !.sales_producer = made.sales + 1] ELSE c
             m1 == IF EH_SALES_CONNECTION_STRING # ""
                   THEN [made EXCEPT !.sales = made.sales + 1] ELSE made
         IN  IF EH_COMBINATIONS_CONNECTION_STRING = "malformed"
             THEN [client |-> c1, made |-> m1, raised |-> TRUE]
             ELSE LET c2 == IF EH_COMBINATIONS_CONNECTION_STRING # ""
                            THEN [c1 EXCEPT !.combinations_producer = m1.combinations + 1] ELSE c1
                      m2 == IF EH_COMBINATIONS_CONNECTION_STRING # ""
                            THEN [m1 EXCEPT !.combinations = m1.combinations + 1] ELSE m1
                  IN  [client |-> [c2 EXCEPT !.initialized = TRUE], made |-> m2, raised |-> FALSE]

\* the "items" list of an event: product_id is item.get("id", "")
EventItems(items) == [i \in 1..Len(items) |-> [product_id |-> ItemGet(items[i], "id", << >>)]]

\* FabricClient.send_combination(user_id, items) on client c; sent tells
\* whether the transport accepts the batch.  Result: the client afterwards,
\* the event transmitted (if any), the returned id, the step that raised, and
\* whether line 80 was reached (the Identity Function was evaluated).
SendCombination(c, made, user_id, items, sent) ==
    LET init == Initialize(c, made)
        combination_id == FabricGenerateCombinationId(items)
        combination_data == [combination_id |-> combination_id, user_id |-> user_id,
                             items |-> EventItems(items)]
        base == [client |-> init.client, made |-> init.made, events |-> << >>,
                 value |-> combination_id, raised |-> "no", hashed |-> TRUE]
    IN  IF init.raised THEN [base EXCEPT !.raised = "_initialize", !.hashed = FALSE]
        ELSE IF init.client.combinations_producer = 0
        THEN [base EXCEPT !.raised = "send_combination: no producer"]
        ELSE IF ~sent THEN [base EXCEPT !.raised = "send_combination: transport"]
        ELSE [base EXCEPT !.events = <<combination_data>>]

\* FabricClient.send_order(user_id, combination_id, items) on client c, with
\* order_id the uuid4() line 120 draws once _initialize has returned
SendOrder(c, made, user_id, combination_id, items, order_id, sent) ==
    LET init == Initialize(c, made)
        order_data == [order_id |-> order_id, combination_id |-> combination_id,
                       user_id |-> user_id, items |-> EventItems(items)]
        base == [client |-> init.client, made |-> init.made, events |-> << >>,
                 value |-> order_id, raised |-> "no"]
    IN  IF init.raised THEN [base EXCEPT !.raised = "_initialize"]
        ELSE IF init.client.sales_producer = 0
        THEN [base EXCEPT !.raised = "send_order: no producer"]
        ELSE IF ~sent THEN [base EXCEPT !.raised = "send_order: transport"]
        ELSE [base EXCEPT !.events = <<order_data>>]

\* str(uuid.uuid4()): the n-th value drawn in the run
Uuid(n) == <<"uuid4", n>>

\* save_combination, lines 195-202
CombinationFailed(e) == [status |-> 200, success |-> FALSE, combination_id |-> "None", error |-> e]

\* an except clause of place_order that lets the failure through
OrderFailed_500(e, local_id) == [status |-> 500, error |-> e]

\* place_order, lines 234-241
OrderFailed(e, local_id) == [status |-> 200, success |-> FALSE, order_id |-> local_id, error |-> e]

\* a finished publish request: its inputs, its response, the step that
\* raised, and whether it evaluated the Identity Function
Logged(endpoint, supplied, items, resp, raised, hashed) ==
    Append(pubLog, [endpoint |-> endpoint, supplied |-> supplied, items |-> items,
                    resp |-> resp, raised |-> raised, hashed |-> hashed])

\* POST /api/combination with body {user_id, items}
save_combination(user_id, items, sent) ==
    /\ Len(pubLog) < MaxPubRequests
    /\ IF NoItems(items)
       THEN /\ pubLog' = Logged("combination", [has |-> FALSE, value |-> << >>], items,
                                ErrorResponse(400, "No items provided"), "no", FALSE)
            /\ UNCHANGED <<fabric_client, combinationsHub, producersMade>>
       ELSE \E r \in {SendCombination(GetFabricClient(fabric_client)[1], producersMade,
                                       user_id, items, sent)} :
                /\ fabric_client' = <<r.client>>
                /\ producersMade' = r.made
                /\ combinationsHub' = combinationsHub \o r.events
                /\ pubLog' = Logged("combination", [has |-> FALSE, value |-> << >>], items,
                        IF r.raised = "no"
                        THEN [status |-> 200, success |-> TRUE, combination_id |-> r.value,
                              message |-> "Combination saved to Fabric"]
                        ELSE CombinationFailed(r.raised),
                        r.raised, r.hashed)
    \* line 180 draws a uuid4 for the default user_id whether it is used or not
    /\ uuids' = uuids + 1
    /\ UNCHANGED <<salesHub, EH_SALES_CONNECTION_STRING, EH_COMBINATIONS_CONNECTION_STRING,
                   idVars, genVars>>

\* "if not combination_id": None and "" both count as absent
NotSupplied(supplied) == ~supplied.has \/ supplied.value = << >>

\* POST /api/order with body {user_id, combination_id, items}
place_order(user_id, supplied, items, sent_combination, sent_order) ==
    /\ Len(pubLog) < MaxPubRequests
    /\ IF NoItems(items)
       THEN /\ pubLog' = Logged("order", supplied, items,
                                ErrorResponse(400, "No items provided"), "no", FALSE)
            /\ uuids' = uuids + 1
            /\ UNCHANGED <<fabric_client, combinationsHub, salesHub, producersMade>>
       ELSE \E rc \in {IF NotSupplied(supplied)
                        THEN SendCombination(GetFabricClient(fabric_client)[1], producersMade,
                                             user_id, items, sent_combination)
                        ELSE [client |-> GetFabricClient(fabric_client)[1], made |-> producersMade,
                              events |-> << >>, value |-> supplied.value, raised |-> "no",
                              hashed |-> FALSE]} :
                IF rc.raised # "no"
                THEN /\ fabric_client' = <<rc.client>>
                     /\ producersMade' = rc.made
                     /\ combinationsHub' = combinationsHub \o rc.events
                     /\ salesHub' = salesHub
                     /\ uuids' = uuids + 2
                     /\ pubLog' = Logged("order", supplied, items,
                                         OrderFailed(rc.raised, Uuid(uuids + 2)), rc.raised,
                                         rc.hashed)
                ELSE \E ro \in {SendOrder(rc.client, rc.made, user_id, rc.value, items,
                                          Uuid(uuids + 2), sent_order)} :
                     /\ fabric_client' = <<ro.client>>
                     /\ producersMade' = ro.made
                     /\ combinationsHub' = combinationsHub \o rc.events
                     /\ salesHub' = salesHub \o ro.events
                     /\ uuids' = IF ro.raised \in {"no", "_initialize"} THEN uuids + 2 ELSE uuids + 3
                     /\ pubLog' = Logged("order", supplied, items,
                            IF ro.raised = "no"
                            THEN [status |-> 200, success |-> TRUE, order_id |-> ro.value,
                                  combination_id |-> rc.value,
                                  message |-> "Order placed successfully"]
                            ELSE OrderFailed(ro.raised,
                                    IF ro.raised = "_initialize" THEN Uuid(uuids + 2)
                                    ELSE Uuid(uuids + 3)),
                            ro.raised, rc.hashed)
    /\ UNCHANGED <<EH_SALES_CONNECTION_STRING, EH_COMBINATIONS_CONNECTION_STRING, idVars, genVars>>

UserIds == {"u1"}

CombinationSaved ==
    \E user_id \in UserIds, items \in PubItemLists, sent \in BOOLEAN :
        save_combination(user_id, items, sent)

OrderPlaced ==
    \E user_id \in UserIds, supplied \in SuppliedIds, items \in PubItemLists,
       sent_combination \in BOOLEAN, sent_order \in BOOLEAN :
        place_order(user_id, supplied, items, sent_combination, sent_order)

NextPub == CombinationSaved \/ OrderPlaced

SpecPub == InitPub /\ [][NextPub]_vars

(* ----------------------- the three endpoints -------------------------- *)
\* requests to /api/generate, /api/combination and /api/order in one run
MaxApiRequests == 3

\* items of one request in such a run: the list is empty or names product a
MaxApiItems == 1

ApiSelections == SeqsUpTo({ProductA}, MaxApiItems)

ApiItemLists == SeqsUpTo({[id |-> ProductA]}, MaxApiItems)

\* the server after start-up, before the first request to any endpoint
InitApi ==
    /\ IdIdle
    /\ images \in SUBSET AllImagePaths
    /\ generated = << >>
    /\ gpc = [t \in Threads |-> "idle"]
    /\ gitems = [t \in Threads |-> << >>]
    /\ gid = [t \in Threads |-> << >>]
    /\ gpaths = [t \in Threads |-> << >>]
    /\ gimgs = [t \in Threads |-> {}]
    /\ nreq = 0
    /\ gattempts = [t \in Threads |-> 0]
    /\ writes = << >>
    /\ genLog = << >>
    /\ EH_SALES_CONNECTION_STRING \in ConnStrings
    /\ EH_COMBINATIONS_CONNECTION_STRING \in ConnStrings
    /\ fabric_client = << >>
    /\ combinationsHub = << >>
    /\ salesHub = << >>
    /\ uuids = 0
    /\ producersMade = [sales |-> 0, combinations |-> 0]
    /\ pubLog = << >>

\* one more request is accepted once the one before has been answered
ApiAccepts == AllIdle /\ nreq + Len(pubLog) < MaxApiRequests

ApiGenerate ==
    \E t \in Threads, selected_items \in ApiSelections :
        ApiAccepts /\ GenerateBegin(t, selected_items)

ApiCombination ==
    \E user_id \in UserIds, items \in ApiItemLists, sent \in BOOLEAN :
        ApiAccepts /\ save_combination(user_id, items, sent)

ApiOrder ==
    \E user_id \in UserIds, supplied \in SuppliedIds, items \in ApiItemLists,
       sent_combination \in BOOLEAN, sent_order \in BOOLEAN :
        ApiAccepts /\ place_order(user_id, supplied, items, sent_combination, sent_order)

NextApi ==
    \/ ApiGenerate
    \/ ApiCombination
    \/ ApiOrder
    \/ CacheChecked
    \/ Composed
    \/ ImageRemoved

SpecApi == InitApi /\ [][NextApi]_vars

(* ------------------- Identity Function, in isolation ------------------- *)
\* item records as the JSON body carries them: with an "id", or without one
ItemRecs == {[id |-> s] : s \in Ids} \cup {[name |-> <<97>>]}

\* the item lists that reach the Identity Function: every caller rejects
\* an empty list first (app.py:113, 183, 215)
ItemLists == SeqsUpTo(ItemRecs, MaxItems) \ {<< >>}

NoOut == [app |-> << >>, fabric |-> << >>]

InitId ==
    /\ idA \in ItemLists
    /\ idB \in ItemLists
    /\ idpc = "start"
    /\ idOut = NoOut
    /\ GenIdle
    /\ PubIdle

\* generate_combination_id on the id strings of both lists
ApplyApp ==
    /\ idpc = "start"
    /\ idOut' = [idOut EXCEPT !.app = <<generate_combination_id(ItemIdsOf(idA)),
                                        generate_combination_id(ItemIdsOf(idB))>>]
    /\ idpc' = "app"
    /\ UNCHANGED <<idA, idB, genVars, pubVars>>

\* FabricClient._generate_combination_id on the records of both lists
ApplyFabric ==
    /\ idpc = "app"
    /\ idOut' = [idOut EXCEPT !.fabric = <<FabricGenerateCombinationId(idA),
                                           FabricGenerateCombinationId(idB)>>]
    /\ idpc' = "done"
    /\ UNCHANGED <<idA, idB, genVars, pubVars>>

NextId == ApplyApp \/ ApplyFabric

SpecId == InitId /\ [][NextId]_vars

(* ---------------- properties of the Identity Function ------------------ *)
\* number of occurrences of x in the list s
Count(x, s) == Cardinality({i \in 1..Len(s) : s[i] = x})

SetOf(s) == {s[i] : i \in 1..Len(s)}

\* the two lists hold the same elements the same number of times
SameMultiset(s, t) == \A x \in SetOf(s) \cup SetOf(t) : Count(x, s) = Count(x, t)

\* no identifier of the list contains the separator
SepFree(s) == \A i \in 1..Len(s) : \A k \in 1..Len(s[i]) : s[i][k] # Sep

idsA == ItemIdsOf(idA)
idsB == ItemIdsOf(idB)
AppApplied == idpc \in {"app", "done"}
FabricApplied == idpc = "done"
AppSameId == idOut.app[1] = idOut.app[2]
FabricSameId == idOut.fabric[1] = idOut.fabric[2]

\* C1: whenever one list is a permutation of the other, generate_combination_id
\* returns the same identifier for both id lists and
\* FabricClient._generate_combination_id returns the same identifier for both
\* record lists.
C1_OrderIndependence ==
    SameMultiset(idA, idB) =>
        /\ AppApplied => AppSameId
        /\ FabricApplied => FabricSameId

\* C1 witness: both functions were applied to a list of three items and to a
\* different ordering of it.
C1_Witness ==
    /\ FabricApplied
    /\ Len(idA) = 3
    /\ Cardinality(SetOf(idsA)) = 3
    /\ SameMultiset(idA, idB)
    /\ idA # idB
    /\ AppSameId /\ FabricSameId

\* C2 as stated: the identifiers of two collections are equal exactly when
\* the collections are equal as sets.
C2_SetEquality ==
    AppApplied => (AppSameId <=> (SetOf(idsA) = SetOf(idsB)))

\* C2 amended: collections equal as multisets get the same identifier, and
\* for identifiers free of the separator the identifiers are equal exactly
\* when the collections are equal as multisets.
C2_MultisetEquality ==
    AppApplied =>
        /\ SameMultiset(idsA, idsB) => AppSameId
        /\ (SepFree(idsA) /\ SepFree(idsB)) => (AppSameId <=> SameMultiset(idsA, idsB))

\* C2 witness: the same set with different multiplicities, told apart.
C2_Witness ==
    /\ AppApplied
    /\ SepFree(idsA) /\ SepFree(idsB)
    /\ SetOf(idsA) = SetOf(idsB)
    /\ ~SameMultiset(idsA, idsB)
    /\ ~AppSameId

(* ----------------- properties of cache-or-generate --------------------- *)
Calls == DOMAIN genLog
Stored(e) == e.file.bytes # "absent"
Succeeded(e) == e.resp.status = 200
ReturnedCached(e) == Succeeded(e) /\ e.resp.cached
SameSelection(e, f) == e.items # << >> /\ SameMultiset(e.items, f.items)

\* C3 as stated: two sequential calls with the same items invoke
\* generate_outfit_image at most once in total, and the second call returns
\* cached=true with the artifact the first call stored.
C3_Idempotent ==
    \A i, j \in Calls :
        (i < j /\ SameSelection(genLog[i], genLog[j])) =>
            /\ genLog[i].invoked + genLog[j].invoked <= 1
            /\ ReturnedCached(genLog[j])
            /\ genLog[j].file = genLog[i].file

\* C3 amended: when the first of two sequential calls with the same items
\* leaves an artifact file, the second call does not invoke
\* generate_outfit_image, leaves the artifact as the first call left it, and
\* returns either cached=true or the 400 of a selection without images.
C3_IdempotentOnceStored ==
    \A i, j \in Calls :
        (i < j /\ SameSelection(genLog[i], genLog[j]) /\ Stored(genLog[i])) =>
            /\ genLog[i].invoked <= 1
            /\ genLog[j].invoked = 0
            /\ genLog[j].file = genLog[i].file
            /\ ReturnedCached(genLog[j]) \/ genLog[j].resp.status = 400

\* C3 witness: a call generated and stored an image, and the next call with
\* the same items was answered from the cache with that image.
C3_Witness ==
    \E i, j \in Calls :
        /\ i < j
        /\ SameSelection(genLog[i], genLog[j])
        /\ Succeeded(genLog[i]) /\ ~genLog[i].resp.cached /\ genLog[i].invoked = 1
        /\ genLog[i].file.bytes \in {"img1", "img2"}
        /\ ReturnedCached(genLog[j]) /\ genLog[j].invoked = 0
        /\ genLog[j].file = genLog[i].file

\* C4: the artifact file of a combination is opened for writing at most once,
\* whatever the interleaving of the requests.
C4_WriteOnce == \A path \in DOMAIN writes : writes[path] <= 1

\* C8: a compose call does not end in failure on a rate-limit or 5xx answer
\* before it has made 3 attempts.
C8_RetryTransient ==
    \A i \in Calls :
        (genLog[i].last.status \in {429, 503} /\ ~Succeeded(genLog[i])) =>
            genLog[i].attempts >= 3

\* C9: a compose call never makes more than 3 outbound attempts; a call whose
\* last answer is a 503 ends in failure, and a call answered 400 ends in
\* failure after exactly one attempt.
C9_BoundedAttempts ==
    /\ \A t \in Threads : gattempts[t] <= 3
    /\ \A i \in Calls :
        /\ genLog[i].attempts <= 3
        /\ genLog[i].last.status = 503 => genLog[i].resp.status = 500
        /\ genLog[i].last.status = 400 =>
               (genLog[i].resp.status = 500 /\ genLog[i].attempts = 1)

\* C9 witness: one call ended in failure on a 503 and another on a 400, each
\* after a single attempt.
C9_Witness ==
    \E i, j \in Calls :
        /\ genLog[i].last.status = 503 /\ genLog[i].resp.status = 500 /\ genLog[i].attempts = 1
        /\ genLog[j].last.status = 400 /\ genLog[j].resp.status = 500 /\ genLog[j].attempts = 1

EmptyResult(e) == e.last.status = 200 /\ e.last.body \in {"empty_data", "no_b64_json"}

\* C10: a call answered 200 with an empty data array or without b64_json
\* ends in failure after that one attempt and does not open the output file.
C10_EmptyResultFails ==
    \A i \in Calls :
        EmptyResult(genLog[i]) =>
            /\ genLog[i].resp.status = 500
            /\ genLog[i].attempts = 1
            /\ ~genLog[i].wrote

\* C10 witness: a call answered with an empty data array and a call answered
\* without b64_json both failed, and no artifact exists for either.
C10_Witness ==
    \E i, j \in Calls :
        /\ genLog[i].last.body = "empty_data" /\ genLog[i].resp.status = 500
        /\ genLog[j].last.body = "no_b64_json" /\ genLog[j].resp.status = 500
        /\ ~Stored(genLog[i]) /\ ~Stored(genLog[j])

(* ------------------- properties of event publishing -------------------- *)
Published == DOMAIN pubLog
Hub(h) == {h[k] : k \in DOMAIN h}
ProductIds(event) == [k \in 1..Len(event.items) |-> event.items[k].product_id]
PublishFailedInCombination(e) ==
    e.raised \in {"send_combination: no producer", "send_combination: transport"}

\* an order request that carried no combination_id and was published
DerivedOrder(e) ==
    e.endpoint = "order" /\ e.items # << >> /\ NotSupplied(e.supplied) /\ e.raised = "no"

\* C5: the order event of an order placed without combination_id carries the
\* combination_id of every combination event published for the same items,
\* in whatever order the two requests listed them.
C5_CrossStreamCorrelation ==
    \A i \in Published :
        DerivedOrder(pubLog[i]) =>
            /\ \E o \in Hub(salesHub) : o.order_id = pubLog[i].resp.order_id
            /\ \A o \in Hub(salesHub), c \in Hub(combinationsHub) :
                  (o.order_id = pubLog[i].resp.order_id
                     /\ SameMultiset(ProductIds(o), ProductIds(c)))
                  => o.combination_id = c.combination_id

\* C5 witness: /api/combination published two items, then an order without
\* combination_id listed them in the other order; the order event carries
\* the identifier of that combination event.
C5_Witness ==
    /\ Len(pubLog) = 2
    /\ pubLog[1].endpoint = "combination" /\ pubLog[1].raised = "no"
    /\ DerivedOrder(pubLog[2])
    /\ Len(pubLog[1].items) = 2
    /\ pubLog[1].items # pubLog[2].items
    /\ SameMultiset(pubLog[1].items, pubLog[2].items)
    /\ Len(salesHub) = 1
    /\ salesHub[1].combination_id = combinationsHub[1].combination_id
    /\ salesHub[1].combination_id = pubLog[1].resp.combination_id

\* C6: when the combination event of an order placed without combination_id
\* cannot be published, the order event is still transmitted on the sales
\* hub, with the identifier derived from the order's items.
C6_OrderSentWithoutCombination ==
    \A i \in Published :
        (pubLog[i].endpoint = "order" /\ pubLog[i].items # << >>
            /\ NotSupplied(pubLog[i].supplied) /\ PublishFailedInCombination(pubLog[i]))
        => \E o \in Hub(salesHub) :
              /\ o.order_id = pubLog[i].resp.order_id
              /\ o.combination_id = FabricGenerateCombinationId(pubLog[i].items)

\* C7: a publish request with items is answered 200 whatever fails in the
\* publisher; the answer of a failed request has an error field, and for an
\* order it has an order_id that no transmitted event carries.
C7_PublishFailuresNonFatal ==
    \A i \in Published :
        pubLog[i].items # << >> =>
            /\ pubLog[i].resp.status = 200
            /\ pubLog[i].raised # "no" =>
                  /\ "error" \in DOMAIN pubLog[i].resp
                  /\ ~pubLog[i].resp.success
                  /\ pubLog[i].endpoint = "order" =>
                        /\ "order_id" \in DOMAIN pubLog[i].resp
                        /\ \A o \in Hub(salesHub) : o.order_id # pubLog[i].resp.order_id

\* C7 witness: an order whose batch the sales hub refused and a combination
\* whose client failed to initialise were both answered 200 with an error.
C7_Witness ==
    \E i, j \in Published :
        /\ pubLog[i].endpoint = "order" /\ pubLog[i].raised = "send_order: transport"
        /\ pubLog[i].resp.status = 200 /\ pubLog[i].resp.order_id[1] = "uuid4"
        /\ pubLog[j].endpoint = "combination"
        /\ pubLog[j].raised \in {"_initialize", "send_combination: no producer"}
        /\ pubLog[j].resp.status = 200 /\ "error" \in DOMAIN pubLog[j].resp


(* --------------------- properties of the endpoints --------------------- *)
\* C11: a request to /api/generate, /api/combination or /api/order whose item
\* list is empty or missing is answered with an error before the Identity
\* Function is evaluated: the call computes no combination_id, makes no
\* compose call, opens no artifact, and no event carries an empty item list.
C11_EmptyRejected ==
    /\ \A i \in Calls : genLog[i].items = << >> =>
            /\ genLog[i].resp.status = 400
            /\ genLog[i].id = << >>
            /\ genLog[i].invoked = 0
            /\ ~genLog[i].wrote
    /\ \A j \in Published : pubLog[j].items = << >> =>
            /\ pubLog[j].resp.status = 400
            /\ ~pubLog[j].hashed
    /\ \A event \in Hub(combinationsHub) \cup Hub(salesHub) : event.items # << >>
    /\ Len(combinationsHub) + Len(salesHub) <=
            2 * Cardinality({j \in Published : pubLog[j].items # << >>})

\* each of the three endpoints has rejected an empty list
C11_Witness ==
    /\ \E i \in Calls : genLog[i].items = << >> /\ genLog[i].resp.status = 400
    /\ \E j \in Published : /\ pubLog[j].endpoint = "combination"
                             /\ pubLog[j].items = << >> /\ pubLog[j].resp.status = 400
    /\ \E j \in Published : /\ pubLog[j].endpoint = "order"
                             /\ pubLog[j].items = << >> /\ pubLog[j].resp.status = 400

\* C12: whenever the compose call fails (credential, HTTP error, missing image
\* payload, base64 decoding, file write), the request is answered with an
\* error and no file exists at the artifact path afterwards.
C12_NoPartialArtifact ==
    \A i \in Calls : (genLog[i].invoked = 1 /\ ~Succeeded(genLog[i])) =>
        /\ genLog[i].resp.status = 500
        /\ ~genLog[i].wrote
        /\ ~Stored(genLog[i])

\* C13: whenever an artifact file exists for the identifier derived from a
\* non-empty request, /api/generate returns that artifact with cached=true and
\* makes no compose call, whatever the catalog lookup gives.  Requests are
\* served one after the other; an artifact left by an earlier call is still
\* there when a later call arrives.
C13_CacheHitFirst ==
    \A i \in Calls : \A j \in Calls :
        (i < j /\ genLog[j].items # << >> /\ genLog[i].id = genLog[j].id /\ Stored(genLog[i])) =>
            /\ ReturnedCached(genLog[j])
            /\ genLog[j].invoked = 0

\* image files of the catalog products with this id
ProductPaths(item_id) ==
    UNION {{ImgPath(CATALOG[c].id, CATALOG[c].products[k]) :
                k \in {n \in 1..Len(CATALOG[c].products) : CATALOG[c].products[n].id = item_id}} :
            c \in 1..Len(CATALOG)}

\* no item of the call is a catalog product whose image file was on disk
NoneResolves(e) == \A k \in 1..Len(e.items) : ProductPaths(e.items[k]) \cap e.imgs = {}

\* C14: a non-empty request none of whose identifiers resolves to a catalog
\* product with an existing image file is answered with the 400 error "No
\* images available for selected products"; it makes no compose call and
\* opens no artifact file.
C14_NoResolvableItems ==
    \A i \in Calls : (genLog[i].items # << >> /\ NoneResolves(genLog[i])) =>
        /\ genLog[i].resp = ErrorResponse(400, "No images available for selected products")
        /\ genLog[i].invoked = 0
        /\ genLog[i].attempts = 0
        /\ ~genLog[i].wrote

\* a cache miss with nothing resolving: once for an identifier the catalog
\* does not have, once for a product whose image file is gone
C14_Witness ==
    /\ \E i \in Calls : /\ genLog[i].items = <<UnknownId>>
                        /\ NoneResolves(genLog[i])
                        /\ ~Stored(genLog[i])
                        /\ genLog[i].resp.status = 400
    /\ \E i \in Calls : /\ genLog[i].items = <<ProductA>>
                        /\ NoneResolves(genLog[i])
                        /\ ~Stored(genLog[i])
                        /\ genLog[i].resp.status = 400

(* ---------------------- properties of the publisher -------------------- *)
\* C15: over any sequence of publish calls, failed initialisations included,
\* at most one producer per event kind is ever created, and a producer
\* reference that was set is never set again.
C15_CreatedOnce ==
    /\ producersMade.sales <= 1
    /\ producersMade.combinations <= 1

(* ------------- further properties of the Identity Function ------------- *)
\* the second list repeats the single element of the first
RepeatsOnly(s, t) == Len(s) = 1 /\ Len(t) > 1 /\ SetOf(t) = SetOf(s)

\* C16: the Identity Function does not deduplicate: a list [a] and a list
\* that repeats a ([a, a], [a, a, a]) get different identifiers, and two lists
\* that hold the same identifiers the same number of times get the same one.
C16_NoDeduplication ==
    /\ AppApplied =>
        /\ RepeatsOnly(idsA, idsB) => ~AppSameId
        /\ SameMultiset(idsA, idsB) => AppSameId
    /\ FabricApplied =>
        /\ RepeatsOnly(idsA, idsB) => ~FabricSameId
        /\ SameMultiset(idsA, idsB) => FabricSameId

\* both functions were applied to [a] and [a, a]
C16_Witness ==
    /\ FabricApplied
    /\ idsA = <<ProductA>>
    /\ idsB = <<ProductA, ProductA>>
    /\ ~AppSameId
    /\ ~FabricSameId

\* C17: the separator never occurs inside an identifier that reaches the
\* Identity Function, so two lists whose sorted sequences differ are joined
\* into different strings and get different identifiers.
C17_SeparatorSafe ==
    /\ AppApplied => (~SameMultiset(idsA, idsB) => ~AppSameId)
    /\ FabricApplied => (~SameMultiset(idsA, idsB) => ~FabricSameId)

(* ------------------ further properties of the publisher ---------------- *)
\* C18: every event on the combinations channel carries as combination_id the
\* Identity Function of the product ids in that event's own item list, and
\* never an identifier the caller supplied.
C18_SelfDerived ==
    \A c \in Hub(combinationsHub) :
        /\ c.combination_id = generate_combination_id(ProductIds(c))
        /\ c.combination_id \notin {supplied.value : supplied \in SuppliedIds}
        /\ \E j \in Published : /\ EventItems(pubLog[j].items) = c.items
                                /\ pubLog[j].hashed

\* an order whose body supplied a combination_id, and a combination event
\* published by another call: the supplied value is on the sales channel only
C18_Witness ==
    /\ \E c \in Hub(combinationsHub) : Len(c.items) > 1 /\ c.items[1] # c.items[2]
    /\ \E j \in Published : /\ pubLog[j].endpoint = "order"
                            /\ ~NotSupplied(pubLog[j].supplied)
                            /\ pubLog[j].resp.status = 200 /\ pubLog[j].resp.success
    /\ \E o \in Hub(salesHub) : o.combination_id \in {supplied.value : supplied \in SuppliedIds}

(* --------------- agreement of the two implementations ------------------ *)
\* C19: for any list of item records, FabricClient._generate_combination_id
\* on the records returns what generate_combination_id returns on the list of
\* those records' id values.
C19_ImplementationsAgree ==
    FabricApplied =>
        /\ idOut.fabric[1] = idOut.app[1]
        /\ idOut.fabric[2] = idOut.app[2]

\* both were applied to a list of several records that is not in sorted order
C19_Witness ==
    /\ FabricApplied
    /\ Len(idsA) > 1
    /\ idsA # Sorted(idsA)
    /\ idOut.fabric[1] = idOut.app[1]
    /\ Len(idOut.app[1]) = 36

ResolvedTo(e, img_path) ==
    {k \in 1..Len(e.items) : img_path \in ProductPaths(e.items[k]) \cap e.imgs}

====
